---- MODULE Spec2Model ----
(***************************************************************************)
(* A model of app.py, the AI code review and refactoring agent: the        *)
(* keyword quality scorer, the score labels, the clean-up of a refactor    *)
(* response, and the flow of one run of main() around the single external  *)
(* chat-completion call.  Texts are TLA+ strings; a character is a string  *)
(* of length one.                                                          *)
(***************************************************************************)
EXTENDS Integers, Sequences, FiniteSets, TLC

VARIABLES
    api_key,            \* os.getenv("OPENAI_API_KEY"): None, "" or a key
    client,             \* main's client: None or an OpenAI client
    pc,                 \* where the run of the script stands
    button,             \* the button whose press started this run
    code_input,         \* main's code_input (pasted text or decoded upload)
    request,            \* the code embedded in the prompt of the call in flight
    calls,              \* calls to client.chat.completions.create in this run
    call_failed,        \* whether the call of this run raised
    completion,         \* response.choices[0].message.content
    review_result,      \* main's review_result
    quality_score,      \* main's quality_score
    score_class,        \* main's score_class
    score_label,        \* main's score_label
    refactored_result,  \* main's refactored_result
    rendered,           \* what the run has put on the page
    pass,               \* how many times a response went through the clean-up
    prior_text,          \* the review text before a keyword was added to it
    prior_score,         \* its score
    added               \* the keyword added, where, and its separator

vars == <<api_key, client, pc, button, code_input, request, calls, call_failed,
          completion, review_result, quality_score, score_class, score_label,
          refactored_result, rendered, pass, prior_text, prior_score, added>>

\* Python's None, and the value of a name not yet assigned.
None == "<None>"

NoAdded == [kw |-> "", pos |-> 0, sep |-> ""]

-----------------------------------------------------------------------------
(* Bounds of the model.                                                    *)

\* Review texts are concatenations of at most this many pieces.
MaxScorePieces == 3
\* Repetitions of one keyword in a review text (15 "bug" and 2 "good" give a
\* raw score of -40, 14 "good" give 140).
MaxRep == 15
\* Base texts of the keyword-adding runs: at most this many pieces.
MaxMonoPieces == 1
\* Model responses are concatenations of at most this many pieces.
MaxNormPieces == 3

-----------------------------------------------------------------------------
(* Strings.                                                                *)

Min(S) == CHOOSE j \in S : \A k \in S : j <= k
Max(S) == CHOOSE j \in S : \A k \in S : j >= k

\* The characters up to U+00FF that str.lower() changes, and what it makes of
\* each: A..Z and the Latin-1 capitals (the multiplication sign is none).
\* A character beyond U+00FF cannot be written in a TLA+ string.
UpperLetters == "ABCDEFGHIJKLMNOPQRSTUVWXYZÀÁÂÃÄÅÆÇÈÉÊËÌÍÎÏÐÑÒÓÔÕÖØÙÚÛÜÝÞ"
LowerLetters == "abcdefghijklmnopqrstuvwxyzàáâãäåæçèéêëìíîïðñòóôõöøùúûüýþ"

IndexIn(alphabet, c) ==
    LET I == {i \in 1..Len(alphabet) : SubSeq(alphabet, i, i) = c}
    IN  IF I = {} THEN 0 ELSE Min(I)

\* The lower-case letter of each upper-case letter, and the converse.
LowerOf ==
    [c \in {SubSeq(UpperLetters, i, i) : i \in 1..Len(UpperLetters)} |->
        SubSeq(LowerLetters, IndexIn(UpperLetters, c), IndexIn(UpperLetters, c))]

UpperOf ==
    [c \in {SubSeq(LowerLetters, i, i) : i \in 1..Len(LowerLetters)} |->
        SubSeq(UpperLetters, IndexIn(LowerLetters, c), IndexIn(LowerLetters, c))]

\* str.lower() of one character.
LowerChar(c) == IF c \in DOMAIN LowerOf THEN LowerOf[c] ELSE c

\* str.lower(): every letter lower-cased, the other characters kept.
RECURSIVE lower(_)
lower(s) ==
    IF Len(s) <= 1 THEN LowerChar(s)
    ELSE LET h == Len(s) \div 2
         IN  lower(SubSeq(s, 1, h)) \o lower(SubSeq(s, h + 1, Len(s)))

\* The positions at which word occurs in s.
Occurrences(s, word) ==
    {j \in 1..(Len(s) - Len(word) + 1) : SubSeq(s, j, j + Len(word) - 1) = word}

\* str.count scans from the left and resumes after the end of each match.
RECURSIVE CountFrom(_, _, _)
CountFrom(M, n, from) ==
    LET R == {j \in M : j >= from}
    IN  IF R = {} THEN 0 ELSE 1 + CountFrom(M, n, Min(R) + n)

\* s.count(word): the number of non-overlapping occurrences of word in s.
count(s, word) == CountFrom(Occurrences(s, word), Len(word), 1)

startswith(s, prefix) ==
    Len(s) >= Len(prefix) /\ SubSeq(s, 1, Len(prefix)) = prefix

endswith(s, suffix) ==
    Len(s) >= Len(suffix) /\ SubSeq(s, Len(s) - Len(suffix) + 1, Len(s)) = suffix

\* The characters str.strip() removes, up to U+00FF: space, tab, line feed,
\* carriage return, form feed, and the seven characters named here, each
\* written as the character itself.
VT == ""  \* U+000B, vertical tab
FS == ""  \* U+001C
GS == ""  \* U+001D
RS == ""  \* U+001E
US == ""  \* U+001F
NEL == ""  \* U+0085, next line
NBSP == " "  \* U+00A0, no-break space

Whitespace ==
    {" ", "\t", "\n", "\r", "\f", VT, FS, GS, RS, US, NEL, NBSP}

\* str.strip(): leading and trailing whitespace removed.
strip(s) ==
    LET I == {i \in 1..Len(s) : SubSeq(s, i, i) \notin Whitespace}
    IN  IF I = {} THEN "" ELSE SubSeq(s, Min(I), Max(I))

-----------------------------------------------------------------------------
(* calculate_quality_score, get_score_class, get_score_label.              *)

negative_keywords ==
    <<"bug", "error", "issue", "problem", "inefficient",
      "poor", "bad practice", "unnecessary", "redundant",
      "memory leak", "security", "vulnerable">>

positive_keywords ==
    <<"good", "well", "clean", "efficient", "optimized",
      "best practice", "excellent", "proper">>

base_score == 70

\* sum(review_lower.count(word) for word in keywords)
RECURSIVE SumCounts(_, _, _)
SumCounts(review_lower, keywords, i) ==
    IF i > Len(keywords) THEN 0
    ELSE count(review_lower, keywords[i]) + SumCounts(review_lower, keywords, i + 1)

min(a, b) == IF a <= b THEN a ELSE b
max(a, b) == IF a >= b THEN a ELSE b

\* A scorer that counts in the text as given, without lower-casing it.
calculate_quality_score_cased(review_text) ==
    LET negative_count == SumCounts(review_text, negative_keywords, 1)
        positive_count == SumCounts(review_text, positive_keywords, 1)
        score == base_score - (negative_count * 8) + (positive_count * 5)
    IN  max(0, min(100, score))

\* A scorer with the two keyword lists exchanged.
calculate_quality_score_swapped(review_text) ==
    LET review_lower == lower(review_text)
        negative_count == SumCounts(review_lower, positive_keywords, 1)
        positive_count == SumCounts(review_lower, negative_keywords, 1)
        score == base_score - (negative_count * 8) + (positive_count * 5)
    IN  max(0, min(100, score))

\* A scorer that clamps at the top only.
calculate_quality_score_unclamped(review_text) ==
    LET review_lower == lower(review_text)
        negative_count == SumCounts(review_lower, negative_keywords, 1)
        positive_count == SumCounts(review_lower, positive_keywords, 1)
        score == base_score - (negative_count * 8) + (positive_count * 5)
    IN  min(100, score)

calculate_quality_score(review_text) ==
    LET review_lower == lower(review_text)
        negative_count == SumCounts(review_lower, negative_keywords, 1)
        positive_count == SumCounts(review_lower, positive_keywords, 1)
        score == base_score - (negative_count * 8) + (positive_count * 5)
    IN  max(0, min(100, score))

get_score_class(score) ==
    IF score >= 85 THEN "score-excellent"
    ELSE IF score >= 70 THEN "score-good"
    ELSE IF score >= 50 THEN "score-fair"
    ELSE "score-poor"

\* Labels with the thresholds open on the lower bound.
get_score_label_open(score) ==
    IF score > 85 THEN "Excellent"
    ELSE IF score > 70 THEN "Good"
    ELSE IF score > 50 THEN "Fair"
    ELSE "Needs Improvement"

get_score_label(score) ==
    IF score >= 85 THEN "Excellent"
    ELSE IF score >= 70 THEN "Good"
    ELSE IF score >= 50 THEN "Fair"
    ELSE "Needs Improvement"

-----------------------------------------------------------------------------
(* Inputs of the scorer.                                                   *)

RECURSIVE Rep(_, _)
Rep(w, n) == IF n = 0 THEN "" ELSE w \o Rep(w, n - 1)

\* All concatenations of at most n pieces.
RECURSIVE Concats(_, _)
Concats(Pieces, n) ==
    IF n = 0 THEN {""}
    ELSE LET T == Concats(Pieces, n - 1)
         IN  T \cup {t \o p : t \in T, p \in Pieces}

ToSet(seq) == {seq[i] : i \in 1..Len(seq)}

Keywords == ToSet(negative_keywords) \cup ToSet(positive_keywords)

\* str.upper() on the letters whose upper case is one character up to U+00FF.
UpperChar(c) == IF c \in DOMAIN UpperOf THEN UpperOf[c] ELSE c

RECURSIVE upper(_)
upper(s) ==
    IF Len(s) <= 1 THEN UpperChar(s)
    ELSE LET h == Len(s) \div 2
         IN  upper(SubSeq(s, 1, h)) \o upper(SubSeq(s, h + 1, Len(s)))

ReviewPieces ==
    {"bug", "error", "inefficient", "good", "excellent ", "Well",
     "BAD PRACTICE", "in", "efficient", " "}

ScoreTexts ==
    Concats(ReviewPieces, MaxScorePieces)
    \cup Keywords
    \cup {upper(k) : k \in Keywords}
    \cup {"CAFÉ IS GOOD", "ÖK", "Bug in the café", "ÉRROR", "error" \o NBSP \o "BUG"}
    \cup {Rep(a, i) \o Rep(b, j) :
            a \in {"bug", "Error "}, b \in {"good", " WELL"},
            i \in 0..MaxRep, j \in 0..MaxRep}

-----------------------------------------------------------------------------
(* The scorer applied to a review text (main, lines 325-327).              *)

InitScore ==
    /\ review_result \in ScoreTexts
    /\ pc = "review"
    /\ api_key = None /\ client = None /\ button = "none"
    /\ code_input = None /\ request = None /\ calls = 0
    /\ call_failed = FALSE /\ completion = None
    /\ quality_score = None /\ score_class = None /\ score_label = None
    /\ refactored_result = None /\ rendered = {} /\ pass = 0
    /\ prior_text = None /\ prior_score = None /\ added = NoAdded

\* quality_score, score_class and score_label of the review text.
ScoreReview ==
    /\ pc = "review"
    /\ quality_score' = calculate_quality_score(review_result)
    /\ score_class' = get_score_class(quality_score')
    /\ score_label' = get_score_label(quality_score')
    /\ pc' = "scored"
    /\ UNCHANGED <<api_key, client, button, code_input, request, calls,
                   call_failed, completion, review_result, refactored_result,
                   rendered, pass, prior_text, prior_score, added>>

NextScore == ScoreReview

SpecScore == InitScore /\ [][NextScore]_vars

-----------------------------------------------------------------------------
(* The labels of every score 0..100.                                       *)

InitLabel ==
    /\ quality_score \in 0..100
    /\ pc = "score"
    /\ api_key = None /\ client = None /\ button = "none"
    /\ code_input = None /\ request = None /\ calls = 0
    /\ call_failed = FALSE /\ completion = None /\ review_result = None
    /\ score_class = None /\ score_label = None
    /\ refactored_result = None /\ rendered = {} /\ pass = 0
    /\ prior_text = None /\ prior_score = None /\ added = NoAdded

LabelScore ==
    /\ pc = "score"
    /\ score_class' = get_score_class(quality_score)
    /\ score_label' = get_score_label(quality_score)
    /\ pc' = "labelled"
    /\ UNCHANGED <<api_key, client, button, code_input, request, calls,
                   call_failed, completion, review_result, quality_score,
                   refactored_result, rendered, pass, prior_text, prior_score,
                   added>>

NextLabel == LabelScore

SpecLabel == InitLabel /\ [][NextLabel]_vars

-----------------------------------------------------------------------------
(* C1: every score calculate_quality_score returns is an integer in 0..100, *)
(* also for the empty text and for texts whose raw score                   *)
(* 70 - 8*negative + 5*positive is below 0 or above 100.                   *)

\* The number of positions of s at which word occurs (overlaps included).
Substrings(s, word) == Cardinality(Occurrences(s, word))

RECURSIVE SumSubstrings(_, _, _)
SumSubstrings(s, keywords, i) ==
    IF i > Len(keywords) THEN 0
    ELSE Substrings(s, keywords[i]) + SumSubstrings(s, keywords, i + 1)

\* The raw score of the claims: 70 - 8*N + 5*P over the lower-cased text.
RawScore(t) ==
    70 - 8 * SumSubstrings(lower(t), negative_keywords, 1)
       + 5 * SumSubstrings(lower(t), positive_keywords, 1)

\* C1: whatever text has been scored, the score is an integer from 0 to 100.
C1_ScoreInRange ==
    pc = "scored" => quality_score \in 0..100

\* A text of raw score -40 has been scored (15 "bug", 2 "good").
C1_Witness ==
    /\ pc = "scored"
    /\ RawScore(review_result) = 0 - 40
    /\ quality_score = 0

\* A text of raw score 140 has been scored.
C1_WitnessHigh ==
    /\ pc = "scored"
    /\ RawScore(review_result) = 140
    /\ quality_score = 100

-----------------------------------------------------------------------------
(* C2: the score is max(0, min(100, 70 - 8*N + 5*P)), N and P the numbers  *)
(* of substring occurrences of the negative and positive keywords in the   *)
(* lower-cased text; it does not depend on letter case; "" scores 70, one  *)
(* "bug" and one "error" score 54, two "excellent" and one "good" score 85, *)
(* and "inefficient" counts once as negative and once as positive.         *)

Clamp(n) == IF n < 0 THEN 0 ELSE IF n > 100 THEN 100 ELSE n

\* C2: the score of a scored text is the clamped raw score, whatever the
\* case of its letters, and the examples of the claim score 70, 54, 85, 67.
C2_ScoreFormula ==
    pc = "scored" =>
        /\ quality_score = Clamp(RawScore(review_result))
        /\ quality_score = calculate_quality_score(upper(review_result))
        /\ quality_score = calculate_quality_score(lower(review_result))
        /\ review_result = "" => quality_score = 70
        /\ review_result = "bug error" => quality_score = 54
        /\ review_result = "excellent excellent good" => quality_score = 85
        /\ review_result = "inefficient" => quality_score = 67

\* One "bug" and one "error", no positive keyword: 54.
C2_Witness ==
    /\ pc = "scored"
    /\ review_result = "bug error"
    /\ quality_score = 54

-----------------------------------------------------------------------------
(* C3: for every score in 0..100 get_score_label gives exactly one label:  *)
(* Excellent iff s >= 85, Good iff 70 <= s <= 84, Fair iff 50 <= s <= 69,   *)
(* Needs Improvement iff s <= 49.                                          *)

\* C3: a labelled score has one of the four labels, each exactly on its range.
C3_LabelThresholds ==
    pc = "labelled" =>
        /\ score_label \in {"Excellent", "Good", "Fair", "Needs Improvement"}
        /\ score_label = "Excellent" <=> quality_score >= 85
        /\ score_label = "Good" <=> (70 <= quality_score /\ quality_score <= 84)
        /\ score_label = "Fair" <=> (50 <= quality_score /\ quality_score <= 69)
        /\ score_label = "Needs Improvement" <=> quality_score <= 49

\* The boundary score 85 has been labelled Excellent.
C3_Witness ==
    /\ pc = "labelled"
    /\ quality_score = 85
    /\ score_label = "Excellent"

-----------------------------------------------------------------------------
(* A keyword added to a scored review text, and the text scored again.     *)

MonoPieces ==
    {"in", "error", "bu", "good", "bad", "best", "prop", "ood", "fficient",
     "memory", " "}

MonoTexts == Concats(MonoPieces, MaxMonoPieces)

InitMono ==
    /\ review_result \in MonoTexts
    /\ pc = "review"
    /\ api_key = None /\ client = None /\ button = "none"
    /\ code_input = None /\ request = None /\ calls = 0
    /\ call_failed = FALSE /\ completion = None
    /\ quality_score = None /\ score_class = None /\ score_label = None
    /\ refactored_result = None /\ rendered = {} /\ pass = 0
    /\ prior_text = None /\ prior_score = None /\ added = NoAdded

\* text with sep, kw, sep put in after its first pos characters.
InsertAt(text, kw, pos, sep) ==
    SubSeq(text, 1, pos) \o sep \o kw \o sep \o SubSeq(text, pos + 1, Len(text))

\* The next review text is the scored one with one more keyword in it.
AddKeyword(kw, pos, sep) ==
    /\ pc = "scored"
    /\ added = NoAdded
    /\ prior_text' = review_result
    /\ prior_score' = quality_score
    /\ review_result' = InsertAt(review_result, kw, pos, sep)
    /\ added' = [kw |-> kw, pos |-> pos, sep |-> sep]
    /\ quality_score' = None
    /\ score_class' = None
    /\ score_label' = None
    /\ pc' = "review"
    /\ UNCHANGED <<api_key, client, button, code_input, request, calls,
                   call_failed, completion, refactored_result, rendered, pass>>

NextMono ==
    \/ ScoreReview
    \/ \E kw \in Keywords, sep \in {"", " "} :
          \E pos \in 0..Len(review_result) : AddKeyword(kw, pos, sep)

SpecMono == InitMono /\ [][NextMono]_vars

-----------------------------------------------------------------------------
(* The clean-up of a refactor response (refactor_code, lines 221-232).     *)

\* The backquote character.  A TLA+ string cannot hold it, so the model writes
\* an apostrophe where the text has a backquote; no text of the model holds an
\* apostrophe of its own.
Tick == "'"
\* "```", and "```python".
Fence == Tick \o Tick \o Tick
FencePython == Fence \o "python"

\* The clean-up without its last strip().
clean_up_response_unstripped(content) ==
    LET r1 == strip(content)
        r2 == IF startswith(r1, FencePython) THEN SubSeq(r1, 10, Len(r1)) ELSE r1
        r3 == IF startswith(r2, Fence) THEN SubSeq(r2, 4, Len(r2)) ELSE r2
        r4 == IF endswith(r3, Fence) THEN SubSeq(r3, 1, Len(r3) - 3) ELSE r3
    IN  r4

\* The clean-up with the bare fence tried only when FencePython did not match.
clean_up_response_elif(content) ==
    LET r1 == strip(content)
        r3 == IF startswith(r1, FencePython) THEN SubSeq(r1, 10, Len(r1))
              ELSE IF startswith(r1, Fence) THEN SubSeq(r1, 4, Len(r1))
              ELSE r1
        r4 == IF endswith(r3, Fence) THEN SubSeq(r3, 1, Len(r3) - 3) ELSE r3
    IN  strip(r4)

clean_up_response(content) ==
    LET r1 == strip(content)
        r2 == IF startswith(r1, FencePython) THEN SubSeq(r1, 10, Len(r1)) ELSE r1
        r3 == IF startswith(r2, Fence) THEN SubSeq(r2, 4, Len(r2)) ELSE r2
        r4 == IF endswith(r3, Fence) THEN SubSeq(r3, 1, Len(r3) - 3) ELSE r3
    IN  strip(r4)

\* What the call to the chat completion ends with: a text, or an exception.
Returned(text) == [ok |-> TRUE, text |-> text]
Raised(message) == [ok |-> FALSE, text |-> message]

review_code(outcome) ==
    IF outcome.ok THEN outcome.text
    ELSE "Error during code review: " \o outcome.text

refactor_code(outcome) ==
    IF outcome.ok THEN clean_up_response(outcome.text)
    ELSE "# Error during refactoring: " \o outcome.text

ResponsePieces ==
    {Fence, FencePython, Fence \o "js", "python", "\n", " ", VT, "code",
     "\ncode\n", Tick}

Responses == Concats(ResponsePieces, MaxNormPieces)

InitNorm ==
    /\ completion \in Responses
    /\ pc = "response"
    /\ pass = 0
    /\ api_key = None /\ client = None /\ button = "none"
    /\ code_input = None /\ request = None /\ calls = 0
    /\ call_failed = FALSE /\ review_result = None
    /\ quality_score = None /\ score_class = None /\ score_label = None
    /\ refactored_result = None /\ rendered = {}
    /\ prior_text = None /\ prior_score = None /\ added = NoAdded

\* refactor_code on a call that returned completion.
CleanUp ==
    /\ pc = "response"
    /\ refactored_result' = refactor_code(Returned(completion))
    /\ pass' = pass + 1
    /\ pc' = "cleaned"
    /\ UNCHANGED <<api_key, client, button, code_input, request, calls,
                   call_failed, completion, review_result, quality_score,
                   score_class, score_label, rendered, prior_text, prior_score,
                   added>>

\* The next response is the cleaned-up text of the last one.
FeedBack ==
    /\ pc = "cleaned"
    /\ pass = 1
    /\ completion' = refactored_result
    /\ refactored_result' = None
    /\ pc' = "response"
    /\ UNCHANGED <<api_key, client, button, code_input, request, calls,
                   call_failed, review_result, quality_score, score_class,
                   score_label, rendered, pass, prior_text, prior_score, added>>

NextNorm == CleanUp \/ FeedBack

SpecNorm == InitNorm /\ [][NextNorm]_vars

-----------------------------------------------------------------------------
(* C4: adding one more instance of a negative keyword to a text never      *)
(* increases its score, and adding a positive keyword never decreases it.  *)

IsNegative(kw) == kw \in ToSet(negative_keywords)
IsPositive(kw) == kw \in ToSet(positive_keywords)

\* A text has been scored, a keyword added to it, and the new text scored.
Rescored == pc = "scored" /\ added.kw # ""

\* C4 as stated, for a keyword put at the end of the text: a negative keyword
\* never raises the score, a positive keyword never lowers it.
C4_MonotoneAppended ==
    (Rescored /\ added.sep = "" /\ added.pos = Len(prior_text)) =>
        /\ IsNegative(added.kw) => quality_score <= prior_score
        /\ IsPositive(added.kw) => quality_score >= prior_score

\* C4 as amended: a negative keyword added at the beginning or at the end of
\* the text (with or without a separating space) never increases the score; a
\* positive keyword added anywhere as a word of its own, a space on each side,
\* never decreases it.
C4_MonotoneAtEnds ==
    Rescored =>
        /\ (IsNegative(added.kw) /\ added.pos \in {0, Len(prior_text)})
              => quality_score <= prior_score
        /\ (IsPositive(added.kw) /\ added.sep = " ")
              => quality_score >= prior_score

\* "bug" added at the end of "good" lowered the score from 75 to 67.
C4_Witness ==
    /\ Rescored
    /\ prior_text = "good"
    /\ added = [kw |-> "bug", pos |-> 4, sep |-> ""]
    /\ prior_score = 75
    /\ quality_score = 67

-----------------------------------------------------------------------------
(* C5: the clean-up works on the trimmed response; a leading fence marker  *)
(* is removed together with its language tag, a trailing fence marker is   *)
(* removed, and the rest is returned trimmed; "```python\ncode\n```" gives  *)
(* "code".                                                                 *)

LanguageTags == {"python", "js"}

\* The first time a response has been cleaned up.
Cleaned == pc = "cleaned" /\ pass = 1

\* C5 as stated, on the responses that open with a fence marker, a language
\* tag and a line break: marker and tag are gone from the result.
C5_AnyLanguageTagRemoved ==
    Cleaned =>
        \A tag \in LanguageTags :
            LET trimmed == strip(completion)
                opening == Fence \o tag \o "\n"
                body == SubSeq(trimmed, Len(opening) + 1, Len(trimmed))
            IN  startswith(trimmed, opening) =>
                    refactored_result =
                        strip(IF endswith(body, Fence)
                              THEN SubSeq(body, 1, Len(body) - 3)
                              ELSE body)

\* The characters the clean-up takes off the start of a trimmed response.
LeadingRemoved(trimmed) ==
    IF startswith(trimmed, FencePython)
    THEN IF startswith(SubSeq(trimmed, 10, Len(trimmed)), Fence) THEN 12 ELSE 9
    ELSE IF startswith(trimmed, Fence) THEN 3 ELSE 0

\* C5 as amended: on the trimmed response, a leading "```python" is removed,
\* then a leading bare fence marker (any other language tag stays in the
\* text), then a trailing fence marker of what is left; the rest is returned
\* trimmed.  "```python\ncode\n```" gives "code".
C5_PythonTagRemoved ==
    Cleaned =>
        LET trimmed == strip(completion)
            body == SubSeq(trimmed, LeadingRemoved(trimmed) + 1, Len(trimmed))
            inner == IF endswith(body, Fence)
                     THEN SubSeq(body, 1, Len(body) - 3)
                     ELSE body
        IN  /\ refactored_result = strip(inner)
            /\ completion = FencePython \o "\ncode\n" \o Fence
                  => refactored_result = "code"
            /\ completion = Fence \o "js" \o "\ncode\n" \o Fence
                  => refactored_result = "js\ncode"

\* "```python\ncode\n```" has been cleaned up to "code".
C5_Witness ==
    /\ Cleaned
    /\ completion = FencePython \o "\ncode\n" \o Fence
    /\ refactored_result = "code"

-----------------------------------------------------------------------------
(* C6: cleaning up a cleaned-up response changes nothing, and a response   *)
(* without a fence marker comes back trimmed.                              *)

Contains(s, word) == Occurrences(s, word) # {}

\* t is s without its leading and trailing whitespace.
IsTrimOf(t, s) ==
    /\ Contains(s, t)
    /\ \A i \in 1..Len(s) :
          SubSeq(s, i, i) \notin Whitespace =>
              \E j \in Occurrences(s, t) : j <= i /\ i < j + Len(t)
    /\ t # "" => /\ SubSeq(t, 1, 1) \notin Whitespace
                 /\ SubSeq(t, Len(t), Len(t)) \notin Whitespace

\* The second clean-up, of the result of the first.
CleanedAgain == pc = "cleaned" /\ pass = 2

\* C6 as stated: the second clean-up returns its input, for every response,
\* and a response without a fence marker comes back trimmed.
C6_IdempotentAlways ==
    /\ CleanedAgain => refactored_result = completion
    /\ (Cleaned /\ ~Contains(completion, Fence))
          => IsTrimOf(refactored_result, completion)

\* C6 as amended: cleaning up a cleaned-up response that neither begins nor
\* ends with a fence marker returns it unchanged, and a response without a
\* fence marker comes back trimmed.
C6_IdempotentWithoutFence ==
    /\ (CleanedAgain /\ ~startswith(completion, Fence)
                     /\ ~endswith(completion, Fence))
          => refactored_result = completion
    /\ (Cleaned /\ ~Contains(completion, Fence))
          => IsTrimOf(refactored_result, completion)

\* The clean-up of "```python\ncode\n```", which is "code", cleaned up again.
C6_Witness ==
    /\ CleanedAgain
    /\ completion = "code"
    /\ refactored_result = "code"

-----------------------------------------------------------------------------
(* One run of the script after another: main(), lines 241-377.             *)

\* get_openai_client with a test for None only.
get_openai_client_none_only(key) ==
    IF key = None THEN None ELSE "OpenAI(api_key=" \o key \o ")"

\* `not api_key` holds of None and of the empty string.
get_openai_client(key) ==
    IF key = None \/ key = "" THEN None ELSE "OpenAI(api_key=" \o key \o ")"

\* The test of the input without strip().
is_blank_unstripped(text) == text = ""

\* No test of the input at all.
is_blank_never(text) == FALSE

\* `not code_input or code_input.strip() == ""`
is_blank(text) == text = "" \/ strip(text) = ""

ApiKeys == {None, "", "sk-test", "sk-other"}
Pastes ==
    {"", " \n", VT \o NBSP, "x = 1", " pass\n", "def f():\n    return 1"}
Uploads == {None, "", "\n\t ", US \o NEL, "print(1)\n"}
Buttons == {"none", "review", "refactor", "clear"}

ReviewTexts == {"", "Good, clean code.", "Bug: an error in the loop. Inefficient."}
RefactorTexts ==
    {"code", FencePython \o "\ncode\n" \o Fence, Fence \o "js\nx\n" \o Fence,
     VT \o Fence \o "\ncode" \o FS}
ErrorMessages == {"Connection error.", "Incorrect API key provided", "quota"}

Outcomes(texts) ==
    {Returned(t) : t \in texts} \cup {Raised(m) : m \in ErrorMessages}

SetupInstructions == {"api_key_not_found", "setup_instructions"}
ReviewPage ==
    {"review_complete", "quality_score", "score_label", "review_text",
     "original_code"}
RefactorPage ==
    {"refactoring_complete", "original_code", "refactored_code",
     "download_button"}

Init ==
    /\ api_key \in ApiKeys
    /\ pc = "idle"
    /\ client = None /\ button = "none"
    /\ code_input = None /\ request = None /\ calls = 0
    /\ call_failed = FALSE /\ completion = None /\ review_result = None
    /\ quality_score = None /\ score_class = None /\ score_label = None
    /\ refactored_result = None /\ rendered = {} /\ pass = 0
    /\ prior_text = None /\ prior_score = None /\ added = NoAdded

\* A run of main() from its start to the external call, or to its end when
\* it makes none.  Streamlit runs the script again on every interaction, with
\* at most one button pressed.  Clear ends the run at st.rerun(), after the
\* input column (and its Loaded message) has been drawn.
RunMain(paste, upload, clicked) ==
    LET loaded == IF upload # None THEN {"file_loaded"} ELSE {} IN
    /\ pc \in {"idle", "done", "stopped"}
    /\ client' = get_openai_client(api_key)
    /\ call_failed' = FALSE
    /\ completion' = None
    /\ review_result' = None
    /\ quality_score' = None
    /\ score_class' = None
    /\ score_label' = None
    /\ refactored_result' = None
    /\ IF client' = None
       THEN /\ rendered' = SetupInstructions
            /\ pc' = "stopped"
            /\ button' = "none"
            /\ code_input' = None
            /\ request' = None
            /\ calls' = 0
       ELSE /\ code_input' = IF upload # None THEN upload ELSE paste
            /\ button' = clicked
            /\ IF clicked = "clear"
               THEN /\ rendered' = loaded
                    /\ pc' = "idle"
                    /\ request' = None
                    /\ calls' = 0
               ELSE IF clicked \in {"review", "refactor"}
               THEN IF is_blank(code_input')
                    THEN /\ rendered' = loaded \cup {"warning_" \o clicked}
                         /\ pc' = "done"
                         /\ request' = None
                         /\ calls' = 0
                    ELSE /\ rendered' = loaded
                         /\ pc' = clicked \o "_call"
                         /\ request' = code_input'
                         /\ calls' = 1
               ELSE /\ rendered' = loaded
                    /\ pc' = "done"
                    /\ request' = None
                    /\ calls' = 0
    /\ UNCHANGED <<api_key, pass, prior_text, prior_score, added>>

\* The call of review_code ends, and main scores and shows the result.
FinishReview(outcome) ==
    /\ pc = "review_call"
    /\ call_failed' = ~outcome.ok
    /\ completion' = IF outcome.ok THEN outcome.text ELSE None
    /\ review_result' = review_code(outcome)
    /\ quality_score' = calculate_quality_score(review_result')
    /\ score_class' = get_score_class(quality_score')
    /\ score_label' = get_score_label(quality_score')
    /\ rendered' = rendered \cup ReviewPage
    /\ pc' = "done"
    /\ UNCHANGED <<api_key, client, button, code_input, request, calls,
                   refactored_result, pass, prior_text, prior_score, added>>

\* The call of refactor_code ends, and main shows the result.
FinishRefactor(outcome) ==
    /\ pc = "refactor_call"
    /\ call_failed' = ~outcome.ok
    /\ completion' = IF outcome.ok THEN outcome.text ELSE None
    /\ refactored_result' = refactor_code(outcome)
    /\ rendered' = rendered \cup RefactorPage
    /\ pc' = "done"
    /\ UNCHANGED <<api_key, client, button, code_input, request, calls,
                   review_result, quality_score, score_class, score_label,
                   pass, prior_text, prior_score, added>>

Next ==
    \/ \E paste \in Pastes, upload \in Uploads, clicked \in Buttons :
          RunMain(paste, upload, clicked)
    \/ \E outcome \in Outcomes(ReviewTexts) : FinishReview(outcome)
    \/ \E outcome \in Outcomes(RefactorTexts) : FinishRefactor(outcome)

Spec == Init /\ [][Next]_vars

-----------------------------------------------------------------------------
(* C7: when the external call raises, review_code and refactor_code return *)
(* a text that starts with "Error during code review:" or                  *)
(* "# Error during refactoring:", and that text is shown to the user in    *)
(* place of a normal result (score, label and review text; cleaned-up      *)
(* code).                                                                  *)

\* C7: after a call that raised, the page shows the placeholder text and,
\* for a review, neither a score nor a label.
C7_PlaceholderReplacesResult ==
    (pc = "done" /\ call_failed) =>
        /\ button = "review" =>
              /\ startswith(review_result, "Error during code review:")
              /\ "review_text" \in rendered
              /\ rendered \cap {"quality_score", "score_label"} = {}
        /\ button = "refactor" =>
              /\ startswith(refactored_result, "# Error during refactoring:")
              /\ "refactored_code" \in rendered

-----------------------------------------------------------------------------
(* C8: each press of Review or Refactor makes exactly one call to the      *)
(* external service, never zero and never more, with no retry.             *)

Pressed == button \in {"review", "refactor"}

HasNonWhitespace(text) ==
    \E i \in 1..Len(text) : SubSeq(text, i, i) \notin Whitespace

\* C8 as stated: a run started by a press of Review or Refactor has made
\* exactly one call when it ends.
C8_ExactlyOneCall ==
    (pc = "done" /\ Pressed) => calls = 1

\* C8 as amended: a press of Review or Refactor with an input that has a
\* non-whitespace character makes exactly one call, a press with an empty or
\* whitespace-only input makes none, and the run ends when the call does.
C8_OneCallUnlessBlank ==
    /\ (pc = "done" /\ Pressed) =>
          calls = IF HasNonWhitespace(code_input) THEN 1 ELSE 0
    /\ pc \in {"review_call", "refactor_call"} => (Pressed /\ calls = 1)
    /\ calls \in {0, 1}

\* A press of Review whose call raised: one call, and the run is over.
C8_Witness ==
    /\ pc = "done"
    /\ button = "review"
    /\ call_failed
    /\ calls = 1

-----------------------------------------------------------------------------
(* C9: without an API key (unset or empty) get_openai_client returns no    *)
(* client and main stops with the setup instructions; no call is made and  *)
(* no result shown without a client built from a non-empty key.            *)

NoKey == api_key = None \/ api_key = ""

\* C9: without a key every run stops at the setup instructions, and a call
\* or a shown result implies a client built from a non-empty key.
C9_NoCallWithoutKey ==
    /\ (NoKey /\ pc # "idle") =>
          /\ pc = "stopped"
          /\ client = None
          /\ rendered = SetupInstructions
    /\ (calls > 0 \/ pc \in {"review_call", "refactor_call"}
                  \/ rendered \cap (ReviewPage \cup RefactorPage) # {}) =>
          /\ ~NoKey
          /\ client # None

\* A run with the empty key has stopped at the setup instructions.
C9_Witness ==
    /\ api_key = ""
    /\ pc = "stopped"
    /\ rendered = SetupInstructions

-----------------------------------------------------------------------------
(* C10: a press of Review or Refactor with an empty or whitespace-only     *)
(* input (the upload if there is one, else the pasted text) shows a        *)
(* warning, makes no call and shows no result; the external service is     *)
(* only called with an input that has a non-whitespace character.          *)

\* C10: a press on blank input ends with the warning, no call and no result,
\* and every request sent has a non-whitespace character.
C10_BlankInputNoCall ==
    /\ (Pressed /\ pc # "idle" /\ ~HasNonWhitespace(code_input)) =>
          /\ pc = "done"
          /\ calls = 0
          /\ "warning_" \o button \in rendered
          /\ rendered \cap (ReviewPage \cup RefactorPage) = {}
    /\ pc \in {"review_call", "refactor_call"} =>
          /\ HasNonWhitespace(request)
          /\ request = code_input
    /\ calls > 0 => HasNonWhitespace(code_input)

\* Review pressed on a whitespace-only upload: the warning, and no call.
C10_Witness ==
    /\ button = "review"
    /\ code_input = "\n\t "
    /\ pc = "done"
    /\ calls = 0
    /\ rendered = {"file_loaded", "warning_review"}

====
